---- MODULE Spec2Model ----
(***************************************************************************)
(* Rate limiting and request execution of the BCRA connector.              *)
(*                                                                         *)
(*   RateLimiter   (src/src/bcra_connector/rate_limiter.py)                *)
(*   _make_request (src/src/bcra_connector/bcra_connector.py)              *)
(*                                                                         *)
(* Time is counted in ticks of 0.01 s, the resolution of the buffer that   *)
(* acquire() adds to its delay; the clock `now` is time.monotonic().       *)
(***************************************************************************)
EXTENDS Integers, Sequences, FiniteSets, TLC

VARIABLES
    now,       \* time.monotonic(), in ticks
    config,    \* RateLimiter.config: [calls, period, burst]
    window,    \* RateLimiter._window: admission timestamps, oldest first
    lock,      \* RateLimiter._lock: 0 when free, else the holding thread
    pc,        \* per thread: position in _make_request / in the worker
    tnow,      \* per thread: `now` read by acquire() at line 99
    ret,       \* per thread: what its last acquire() did
    attempt,   \* per thread: loop index of _make_request
    wakeAt,    \* per thread: end of the current time.sleep()
    outcomes,  \* per thread: outcome of each HTTP GET of the current call
    sleeps,    \* per thread: backoff sleeps (seconds) of the current call
    rlsleeps,  \* per thread: rate-limit sleeps (ticks) of the current call
    result,    \* per thread: how the current call ended
    gets,      \* times of the HTTP GETs issued in the last `period`, in order
    results,   \* what the workers calling acquire() reported, in order
    ncalls,    \* number of calls started (requests or bare acquires)
    args       \* arguments of the public call under way

vars == <<now, config, window, lock, pc, tnow, ret, attempt, wakeAt,
          outcomes, sleeps, rlsleeps, result, gets, results, ncalls, args>>

----------------------------------------------------------------------------
(* Bounds of the model *)

NThreads == 3
MaxCalls == 3
MaxAcquires == 3
MaxTime == 450

(* Program constants *)

MAX_RETRIES == 3
RETRY_DELAY == 1
TicksPerSecond == 100
Buffer == 1

Threads == 1..NThreads
\* the thread of a single-threaded caller
MainThread == CHOOSE t \in Threads : \A u \in Threads : t <= u

(* Rate-limit configurations: the strict one of the integration tests     *)
(* (calls=1, period=2.0, burst defaulting to calls), and scaled-down       *)
(* instances of the default (burst = 2 * calls, period=1.0).               *)
\* Optional[int]: None is the empty sequence, a value a sequence of one
None == <<>>
Some(x) == <<x>>

RateLimitConfig(calls, period, burst) ==
    [calls |-> calls, period |-> period,
     burst |-> IF burst = None THEN calls ELSE burst[1]]

ValidConfig(calls, period, burst) ==
    /\ calls > 0
    /\ period > 0
    /\ ~(burst # None /\ burst[1] < calls)

Configs ==
    { RateLimitConfig(c[1], c[2], c[3]) :
        c \in { x \in { <<1, 200, None>>, <<1, 100, Some(2)>>,
                        <<2, 100, Some(4)>>, <<2, 100, Some(3)>>,
                        <<2, 100, None>> } :
                  ValidConfig(x[1], x[2], x[3]) } }

----------------------------------------------------------------------------
(* RateLimiter *)

\* a timestamp exactly `period` old is dropped as well
CleanOldTimestamps_PurgesAtPeriod(w, t, period) ==
    SelectSeq(w, LAMBDA x : t - x < period)

\* the oldest entry is dropped whether it has expired or not
CleanOldTimestamps_DropsOldest(w, t, period) ==
    IF Len(w) > 0 THEN Tail(w) ELSE w

RECURSIVE CleanOldTimestamps(_, _, _)
CleanOldTimestamps(w, t, period) ==
    IF Len(w) > 0 /\ t - Head(w) > period
    THEN CleanOldTimestamps(Tail(w), t, period)
    ELSE w

\* the computed delay is returned whatever its sign
Acquire_NoPositiveCheck(w, now1, now2, cfg) ==
    LET w1 == CleanOldTimestamps(w, now2, cfg.period) IN
    IF Len(w1) >= cfg.burst
    THEN [kind |-> "raise", delay |-> 0, window |-> w1]
    ELSE IF Len(w1) >= cfg.calls
         THEN [kind |-> "delay",
               delay |-> (Head(w1) + cfg.period + Buffer) - now1,
               window |-> w1]
         ELSE [kind |-> "zero", delay |-> 0, window |-> Append(w1, now1)]

\* both limits compared with > instead of >=
Acquire_OffByOne(w, now1, now2, cfg) ==
    LET w1 == CleanOldTimestamps(w, now2, cfg.period) IN
    IF Len(w1) > cfg.burst
    THEN [kind |-> "raise", delay |-> 0, window |-> w1]
    ELSE IF /\ Len(w1) > cfg.calls
            /\ (Head(w1) + cfg.period + Buffer) - now1 > 0
         THEN [kind |-> "delay",
               delay |-> (Head(w1) + cfg.period + Buffer) - now1,
               window |-> w1]
         ELSE [kind |-> "zero", delay |-> 0, window |-> Append(w1, now1)]

\* the timestamp is recorded also when a delay is returned
Acquire_AppendsWhenDelayed(w, now1, now2, cfg) ==
    LET w1 == CleanOldTimestamps(w, now2, cfg.period) IN
    IF Len(w1) >= cfg.burst
    THEN [kind |-> "raise", delay |-> 0, window |-> w1]
    ELSE IF /\ Len(w1) >= cfg.calls
            /\ (Head(w1) + cfg.period + Buffer) - now1 > 0
         THEN [kind |-> "delay",
               delay |-> (Head(w1) + cfg.period + Buffer) - now1,
               window |-> Append(w1, now1)]
         ELSE [kind |-> "zero", delay |-> 0, window |-> Append(w1, now1)]

\* the window is compared with `calls` before it is compared with `burst`
Acquire_DelayBeforeRaise(w, now1, now2, cfg) ==
    LET w1 == CleanOldTimestamps(w, now2, cfg.period) IN
    IF /\ Len(w1) >= cfg.calls
       /\ Len(w1) < cfg.burst + 1
       /\ (Head(w1) + cfg.period + Buffer) - now1 > 0
    THEN [kind |-> "delay",
          delay |-> (Head(w1) + cfg.period + Buffer) - now1,
          window |-> w1]
    ELSE IF Len(w1) >= cfg.burst
         THEN [kind |-> "raise", delay |-> 0, window |-> w1]
         ELSE [kind |-> "zero", delay |-> 0, window |-> Append(w1, now1)]

\* the delay is the even spacing period / calls, whatever the age of the
\* oldest entry
Acquire_EvenSpacing(w, now1, now2, cfg) ==
    LET w1 == CleanOldTimestamps(w, now2, cfg.period) IN
    IF Len(w1) >= cfg.burst
    THEN [kind |-> "raise", delay |-> 0, window |-> w1]
    ELSE IF Len(w1) >= cfg.calls
         THEN [kind |-> "delay",
               delay |-> cfg.period \div cfg.calls,
               window |-> w1]
         ELSE [kind |-> "zero", delay |-> 0, window |-> Append(w1, now1)]

\* the new timestamp is put at the oldest end of the window
Acquire_AppendsLeft(w, now1, now2, cfg) ==
    LET w1 == CleanOldTimestamps(w, now2, cfg.period) IN
    IF Len(w1) >= cfg.burst
    THEN [kind |-> "raise", delay |-> 0, window |-> w1]
    ELSE IF /\ Len(w1) >= cfg.calls
            /\ (Head(w1) + cfg.period + Buffer) - now1 > 0
         THEN [kind |-> "delay",
               delay |-> (Head(w1) + cfg.period + Buffer) - now1,
               window |-> w1]
         ELSE [kind |-> "zero", delay |-> 0, window |-> <<now1>> \o w1]

\* acquire(): now1 is the clock read at line 99, now2 the clock read by
\* _clean_old_timestamps at line 62.
Acquire(w, now1, now2, cfg) ==
    LET w1 == CleanOldTimestamps(w, now2, cfg.period) IN
    IF Len(w1) >= cfg.burst
    THEN [kind |-> "raise", delay |-> 0, window |-> w1]
    ELSE IF /\ Len(w1) >= cfg.calls
            /\ (Head(w1) + cfg.period + Buffer) - now1 > 0
         THEN [kind |-> "delay",
               delay |-> (Head(w1) + cfg.period + Buffer) - now1,
               window |-> w1]
         ELSE [kind |-> "zero", delay |-> 0, window |-> Append(w1, now1)]

NoRet == [kind |-> "none", delay |-> 0]
NoArgs == [op |-> "none"]
NoResult == [kind |-> "none", exc |-> "none", msg |-> <<>>]

Init ==
    /\ now = 0
    /\ config \in Configs
    /\ window = <<>>
    /\ lock = 0
    /\ pc = [t \in Threads |-> "idle"]
    /\ tnow = [t \in Threads |-> 0]
    /\ ret = [t \in Threads |-> NoRet]
    /\ attempt = [t \in Threads |-> 0]
    /\ wakeAt = [t \in Threads |-> 0]
    /\ outcomes = [t \in Threads |-> <<>>]
    /\ sleeps = [t \in Threads |-> <<>>]
    /\ rlsleeps = [t \in Threads |-> <<>>]
    /\ result = [t \in Threads |-> NoResult]
    /\ gets = <<>>
    /\ results = <<>>
    /\ ncalls = 0
    /\ args = NoArgs

----------------------------------------------------------------------------
(* What one HTTP GET can come back with *)

Statuses == {200, 400, 404, 429, 500, 503}

\* Body of a response: a JSON object without / with "errorMessages", a JSON
\* list of numbers, a JSON number, or text that is not JSON.
Bodies == {"obj", "errobj", "list", "scalar", "invalid"}

\* str(e) of a requests.ConnectionError
ConnTexts == {"Connection refused", "SSL: CERTIFICATE_VERIFY_FAILED",
              "ssl handshake failure"}

HttpOutcomes ==
    [kind : {"response"}, status : Statuses, body : Bodies, text : {""}]
    \cup [kind : {"timeout", "reqerr"}, status : {0}, body : {""}, text : {""}]
    \cup [kind : {"connerr"}, status : {0}, body : {""}, text : ConnTexts]

\* response.raise_for_status() raises HTTPError for 4xx and 5xx
RaisesForStatus(status) == status >= 400 /\ status < 600

\* "SSL" in str(e), without the upper()
UpperHasSSL_CaseSensitive(text) ==
    text \in {"SSL: CERTIFICATE_VERIFY_FAILED"}

\* "SSL" in str(e).upper()
UpperHasSSL(text) ==
    text \in {"SSL: CERTIFICATE_VERIFY_FAILED", "ssl handshake failure"}

\* f"{n}" for the numbers that appear in messages
Digit(d) ==
    CASE d = 0 -> "0" [] d = 1 -> "1" [] d = 2 -> "2" [] d = 3 -> "3"
      [] d = 4 -> "4" [] d = 5 -> "5" [] d = 6 -> "6" [] d = 7 -> "7"
      [] d = 8 -> "8" [] d = 9 -> "9"

RECURSIVE NumText(_)
NumText(n) == IF n < 10 THEN Digit(n) ELSE NumText(n \div 10) \o Digit(n % 10)

\* Messages are sequences of text fragments, in order.
MsgHas(msg, frag) == \E i \in 1..Len(msg) : msg[i] = frag

Pow2(n) == IF n = 0 THEN 1 ELSE IF n = 1 THEN 2 ELSE IF n = 2 THEN 4 ELSE 8

ApiError(msg) == [next |-> "raise", exc |-> "BCRAApiError", msg |-> msg, sleep |-> 0]
Escapes(exc) == [next |-> "raise", exc |-> exc, msg |-> <<>>, sleep |-> 0]
Returns == [next |-> "return", exc |-> "none", msg |-> <<>>, sleep |-> 0]
Retry(att) == [next |-> "retry", exc |-> "none", msg |-> <<>>,
               sleep |-> RETRY_DELAY * Pow2(att)]

\* lines 127-138
NotFoundError(o) ==
    LET base == <<"HTTP", "404", "Resource not found at", "url">> IN
    CASE o.body = "errobj" -> ApiError(base \o <<"errorMessages">>)
      [] o.body = "scalar" -> Escapes("TypeError")
      [] OTHER -> ApiError(base)

\* lines 140-156
HttpStatusError(o) ==
    LET base == <<"HTTP", NumText(o.status), "for", "url">> IN
    CASE o.body = "errobj" -> ApiError(base \o <<"errorMessages">>)
      [] o.body = "obj" -> ApiError(base \o <<"str(error_data)">>)
      [] o.body = "list" -> ApiError(base)
      [] o.body = "scalar" -> Escapes("TypeError")
      [] OTHER -> ApiError(base \o <<"reason">>)

\* a body that is not JSON taken for a transient failure
DecodeBody_RetryInvalid(o) ==
    CASE o.body \in {"obj", "errobj"} -> Returns
      [] o.body = "invalid" -> Retry(0)
      [] OTHER -> Escapes("TypeError")

\* lines 158-161
DecodeBody(o) ==
    CASE o.body \in {"obj", "errobj"} -> Returns
      [] o.body = "invalid" -> ApiError(<<"Invalid JSON response from", "url">>)
      [] OTHER -> Escapes("TypeError")

\* a timeout is retried on the last attempt as on the others
OnTimeout_AlwaysRetries(att) == Retry(att)

\* lines 163-171
OnTimeout(att) ==
    IF att = MAX_RETRIES - 1
    THEN ApiError(<<"Request timed out after", NumText(MAX_RETRIES),
                    "attempts to", "url">>)
    ELSE Retry(att)

\* the retry limit compared off by one
OnConnectionError_OffByOne(o, att) ==
    IF UpperHasSSL(o.text)
    THEN ApiError(<<"SSL verification failed for", "url">>)
    ELSE IF att = MAX_RETRIES
         THEN ApiError(<<"API request failed: Connection error to", "url">>)
         ELSE Retry(att)

\* lines 173-185
OnConnectionError(o, att) ==
    IF UpperHasSSL(o.text)
    THEN ApiError(<<"SSL verification failed for", "url">>)
    ELSE IF att = MAX_RETRIES - 1
         THEN ApiError(<<"API request failed: Connection error to", "url">>)
         ELSE Retry(att)

\* lines 187-196
OnRequestException(att) ==
    IF att = MAX_RETRIES - 1
    THEN ApiError(<<"API request failed after", NumText(MAX_RETRIES),
                    "attempts:", "str(e)">>)
    ELSE Retry(att)

\* The body of the loop of _make_request after session.get, lines 116-196
Classify(o, att) ==
    CASE o.kind = "timeout" -> OnTimeout(att)
      [] o.kind = "connerr" -> OnConnectionError(o, att)
      [] o.kind = "reqerr" -> OnRequestException(att)
      [] OTHER ->
           IF RaisesForStatus(o.status)
           THEN IF o.status = 404 THEN NotFoundError(o) ELSE HttpStatusError(o)
           ELSE DecodeBody(o)

RateLimitError(cfg) ==
    <<"Rate limit exceeded: Maximum burst capacity of", NumText(cfg.burst),
      "requests reached">>

----------------------------------------------------------------------------
(* _make_request, one thread *)

\* Gaps the caller may leave before issuing a call: none, one tick, half a
\* second.
CallGaps == {0, 1, 50}

\* entry of _make_request, d ticks after the caller's previous step: the
\* loop starts at attempt 0
StartRequest(t) ==
    /\ pc[t] \in {"idle", "done"}
    /\ ncalls < MaxCalls
    /\ \E d \in CallGaps :
        /\ now + d <= MaxTime
        /\ now' = now + d
    /\ ncalls' = ncalls + 1
    /\ pc' = [pc EXCEPT ![t] = "acquire"]
    /\ attempt' = [attempt EXCEPT ![t] = 0]
    /\ outcomes' = [outcomes EXCEPT ![t] = <<>>]
    /\ sleeps' = [sleeps EXCEPT ![t] = <<>>]
    /\ rlsleeps' = [rlsleeps EXCEPT ![t] = <<>>]
    /\ result' = [result EXCEPT ![t] = NoResult]
    /\ ret' = [ret EXCEPT ![t] = NoRet]
    /\ UNCHANGED <<args, config, window, lock, tnow, wakeAt, gets, results>>

\* the lock is taken without waiting for its holder
LockFree_Ignored == TRUE

\* `with self._lock:` blocks while another thread holds the lock
LockFree == lock = 0

\* acquire(), lines 98-99: take the lock and read the clock
AcquireEnter(t) ==
    /\ pc[t] = "acquire"
    /\ LockFree
    /\ lock' = t
    /\ tnow' = [tnow EXCEPT ![t] = now]
    /\ pc' = [pc EXCEPT ![t] = "locked"]
    /\ UNCHANGED <<args, now, config, window, ret, attempt, wakeAt, outcomes,
                   sleeps, rlsleeps, result, gets, results, ncalls>>

\* the exception of acquire() is swallowed and the attempt goes on to its GET
AcquireExit_SwallowsRaise(t) ==
    /\ pc[t] = "locked"
    /\ lock = t
    /\ LET r == Acquire(window, tnow[t], now, config) IN
        /\ window' = r.window
        /\ lock' = 0
        /\ ret' = [ret EXCEPT ![t] = [kind |-> r.kind, delay |-> r.delay]]
        /\ IF r.delay > 0
           THEN /\ pc' = [pc EXCEPT ![t] = "ratesleep"]
                /\ wakeAt' = [wakeAt EXCEPT ![t] = now + r.delay]
                /\ rlsleeps' = [rlsleeps EXCEPT ![t] = Append(@, r.delay)]
           ELSE /\ pc' = [pc EXCEPT ![t] = "get"]
                /\ UNCHANGED <<wakeAt, rlsleeps>>
    /\ tnow' = [tnow EXCEPT ![t] = 0]
    /\ UNCHANGED <<args, now, config, attempt, outcomes, sleeps, gets, results,
                   ncalls, result>>

\* the exception of acquire() is taken for a transient failure: the attempt
\* backs off and the loop goes on
AcquireExit_RetriesRaise(t) ==
    /\ pc[t] = "locked"
    /\ lock = t
    /\ LET r == Acquire(window, tnow[t], now, config) IN
        /\ window' = r.window
        /\ lock' = 0
        /\ ret' = [ret EXCEPT ![t] = [kind |-> r.kind, delay |-> r.delay]]
        /\ IF r.kind = "raise"
           THEN /\ pc' = [pc EXCEPT ![t] = "backoff"]
                /\ sleeps' = [sleeps EXCEPT ![t] =
                      Append(@, RETRY_DELAY * Pow2(attempt[t]))]
                /\ wakeAt' = [wakeAt EXCEPT ![t] =
                      now + RETRY_DELAY * Pow2(attempt[t]) * TicksPerSecond]
                /\ UNCHANGED rlsleeps
           ELSE IF r.delay > 0
           THEN /\ pc' = [pc EXCEPT ![t] = "ratesleep"]
                /\ wakeAt' = [wakeAt EXCEPT ![t] = now + r.delay]
                /\ rlsleeps' = [rlsleeps EXCEPT ![t] = Append(@, r.delay)]
                /\ UNCHANGED sleeps
           ELSE /\ pc' = [pc EXCEPT ![t] = "get"]
                /\ UNCHANGED <<wakeAt, rlsleeps, sleeps>>
    /\ tnow' = [tnow EXCEPT ![t] = 0]
    /\ UNCHANGED <<args, now, config, attempt, outcomes, gets, results,
                   ncalls, result>>

\* the lock is still held when acquire() leaves by its raise
AcquireExit_KeepsLockOnRaise(t) ==
    /\ pc[t] = "locked"
    /\ lock = t
    /\ LET r == Acquire(window, tnow[t], now, config) IN
        /\ window' = r.window
        /\ lock' = IF r.kind = "raise" THEN t ELSE 0
        /\ ret' = [ret EXCEPT ![t] = [kind |-> r.kind, delay |-> r.delay]]
        /\ IF r.kind = "raise"
           THEN /\ pc' = [pc EXCEPT ![t] = "done"]
                /\ result' = [result EXCEPT ![t] =
                      [kind |-> "raise", exc |-> "BCRAApiError",
                       msg |-> RateLimitError(config)]]
                /\ UNCHANGED <<wakeAt, rlsleeps>>
           ELSE IF r.delay > 0
           THEN /\ pc' = [pc EXCEPT ![t] = "ratesleep"]
                /\ wakeAt' = [wakeAt EXCEPT ![t] = now + r.delay]
                /\ rlsleeps' = [rlsleeps EXCEPT ![t] = Append(@, r.delay)]
                /\ UNCHANGED result
           ELSE /\ pc' = [pc EXCEPT ![t] = "get"]
                /\ UNCHANGED <<wakeAt, rlsleeps, result>>
    /\ tnow' = [tnow EXCEPT ![t] = 0]
    /\ UNCHANGED <<args, now, config, attempt, outcomes, sleeps, gets, results,
                   ncalls>>

\* acquire(), lines 101-120, then lines 108-113 of _make_request
AcquireExit(t) ==
    /\ pc[t] = "locked"
    /\ lock = t
    /\ LET r == Acquire(window, tnow[t], now, config) IN
        /\ window' = r.window
        /\ lock' = 0
        /\ ret' = [ret EXCEPT ![t] = [kind |-> r.kind, delay |-> r.delay]]
        /\ IF r.kind = "raise"
           THEN /\ pc' = [pc EXCEPT ![t] = "done"]
                /\ result' = [result EXCEPT ![t] =
                      [kind |-> "raise", exc |-> "BCRAApiError",
                       msg |-> RateLimitError(config)]]
                /\ UNCHANGED <<wakeAt, rlsleeps>>
           ELSE IF r.delay > 0
           THEN /\ pc' = [pc EXCEPT ![t] = "ratesleep"]
                /\ wakeAt' = [wakeAt EXCEPT ![t] = now + r.delay]
                /\ rlsleeps' = [rlsleeps EXCEPT ![t] = Append(@, r.delay)]
                /\ UNCHANGED result
           ELSE /\ pc' = [pc EXCEPT ![t] = "get"]
                /\ UNCHANGED <<wakeAt, rlsleeps, result>>
    /\ tnow' = [tnow EXCEPT ![t] = 0]
    /\ UNCHANGED <<args, now, config, attempt, outcomes, sleeps, gets, results,
                   ncalls>>

\* time.sleep(d) returns once the clock has reached the end of the sleep,
\* or a little later
OverSleep == {0, 1}

\* the sleep returns without waiting
SleepReturns_AtOnce(t, n) == n = now

SleepReturns(t, n) ==
    /\ \E e \in OverSleep : n = (IF now >= wakeAt[t] THEN now ELSE wakeAt[t]) + e
    /\ n <= MaxTime

\* time.sleep(delay) of line 113 returns
RateLimitWake(t) ==
    /\ pc[t] = "ratesleep"
    /\ \E n \in 0..MaxTime : SleepReturns(t, n) /\ now' = n
    /\ pc' = [pc EXCEPT ![t] = "get"]
    /\ UNCHANGED <<args, config, window, lock, tnow, ret, attempt, wakeAt,
                   outcomes, sleeps, rlsleeps, result, gets, results, ncalls>>

\* the GETs not older than `period` at time t
RecentGets(g, t, period) == SelectSeq(g, LAMBDA x : t - x <= period)

\* session.get and what follows it in the attempt, lines 116-196
HttpGet(t) ==
    /\ pc[t] = "get"
    /\ \E o \in HttpOutcomes :
        LET c == Classify(o, attempt[t]) IN
        /\ gets' = Append(RecentGets(gets, now, config.period), now)
        /\ outcomes' = [outcomes EXCEPT ![t] = Append(@, o)]
        /\ IF c.next = "retry"
           THEN /\ pc' = [pc EXCEPT ![t] = "backoff"]
                /\ sleeps' = [sleeps EXCEPT ![t] = Append(@, c.sleep)]
                /\ wakeAt' = [wakeAt EXCEPT ![t] = now + c.sleep * TicksPerSecond]
                /\ UNCHANGED result
           ELSE /\ pc' = [pc EXCEPT ![t] = "done"]
                /\ result' = [result EXCEPT ![t] =
                      [kind |-> c.next, exc |-> c.exc, msg |-> c.msg]]
                /\ UNCHANGED <<sleeps, wakeAt>>
    /\ UNCHANGED <<args, now, config, window, lock, tnow, ret, attempt, rlsleeps,
                   results, ncalls>>

\* the backoff sleep returns and the loop goes to its next index, line 105;
\* line 199 after the loop
BackoffWake(t) ==
    /\ pc[t] = "backoff"
    /\ \E n \in 0..MaxTime : SleepReturns(t, n) /\ now' = n
    /\ attempt' = [attempt EXCEPT ![t] = @ + 1]
    /\ IF attempt[t] + 1 < MAX_RETRIES
       THEN /\ pc' = [pc EXCEPT ![t] = "acquire"]
            /\ UNCHANGED result
       ELSE /\ pc' = [pc EXCEPT ![t] = "done"]
            /\ result' = [result EXCEPT ![t] =
                  [kind |-> "raise", exc |-> "BCRAApiError",
                   msg |-> <<"Maximum retry attempts reached">>]]
    /\ UNCHANGED <<args, config, window, lock, tnow, ret, wakeAt, outcomes,
                   sleeps, rlsleeps, gets, results, ncalls>>

Next ==
    \/ \E t \in {MainThread} :
          \/ StartRequest(t)
          \/ AcquireEnter(t)
          \/ AcquireExit(t)
          \/ RateLimitWake(t)
          \/ HttpGet(t)
          \/ BackoffWake(t)

Spec == Init /\ [][Next]_vars

----------------------------------------------------------------------------
(* Threads that call acquire() directly and report what it did, as the    *)
(* workers of the limiter's unit tests do                                  *)

\* Gaps a worker may leave before its call: none, one tick, exactly one
\* period, and just over one period.
WorkerGaps(cfg) == {0, 1, cfg.period, cfg.period + 1}

\* the worker is about to call limiter.acquire()
WorkerStart(t) ==
    /\ pc[t] \in {"idle", "done"}
    /\ ncalls < MaxAcquires
    /\ \E d \in WorkerGaps(config) :
        /\ now + d <= MaxTime
        /\ now' = now + d
    /\ ncalls' = ncalls + 1
    /\ pc' = [pc EXCEPT ![t] = "acquire"]
    /\ ret' = [ret EXCEPT ![t] = NoRet]
    /\ UNCHANGED <<args, config, window, lock, tnow, attempt, wakeAt, outcomes,
                   sleeps, rlsleeps, result, gets, results>>

\* results.put(("success", delay)) / results.put(("error", str(e)))
Report(t, r) ==
    [op |-> "acquire",
     at |-> tnow[t],
     status |-> IF r.kind = "raise" THEN "error" ELSE "success",
     delay |-> r.delay,
     value |-> 0,
     limited |-> FALSE]

\* acquire(), lines 101-120, and the worker's report
WorkerExit(t) ==
    /\ pc[t] = "locked"
    /\ lock = t
    /\ LET r == Acquire(window, tnow[t], now, config) IN
        /\ window' = r.window
        /\ lock' = 0
        /\ ret' = [ret EXCEPT ![t] = [kind |-> r.kind, delay |-> r.delay]]
        /\ results' = Append(results, Report(t, r))
    /\ tnow' = [tnow EXCEPT ![t] = 0]
    /\ pc' = [pc EXCEPT ![t] = "done"]
    /\ UNCHANGED <<args, now, config, attempt, wakeAt, outcomes, sleeps,
                   rlsleeps, result, gets, ncalls>>

\* the clock moves by one tick between the two clock reads of acquire()
\* or of is_limited
ClockDrift ==
    /\ \E t \in Threads : pc[t] \in {"locked", "in_is_limited"} /\ tnow[t] = now
    /\ now < MaxTime
    /\ now' = now + 1
    /\ UNCHANGED <<args, config, window, lock, pc, tnow, ret, attempt, wakeAt,
                   outcomes, sleeps, rlsleeps, result, gets, results, ncalls>>

NextRL ==
    \/ \E t \in Threads :
          \/ WorkerStart(t)
          \/ AcquireEnter(t)
          \/ WorkerExit(t)
    \/ ClockDrift

SpecRL == Init /\ [][NextRL]_vars

----------------------------------------------------------------------------
(* The whole interface of one RateLimiter used from several threads:
   acquire(), reset(), current_usage, is_limited and remaining_calls().
   Each call waits for the lock, runs its body while holding it, and logs
   what it returned. *)

NOpThreads == 2

OpThreads == 1..NOpThreads
Ops == {"acquire", "reset", "current_usage", "is_limited", "remaining_calls"}

\* the position of a thread that runs the body of op
Inside(op) ==
    CASE op = "reset" -> "in_reset"
      [] op = "current_usage" -> "in_current_usage"
      [] op = "is_limited" -> "in_is_limited"
      [] op = "remaining_calls" -> "in_remaining_calls"
      [] op = "acquire" -> "locked"

NonNegative(n) == IF n > 0 THEN n ELSE 0

\* reset() leaves the window as it was
Reset_KeepsWindow(w) == w

\* reset(): self._window.clear()
Reset(w) == <<>>

\* current_usage, on the purged window
CurrentUsage(w) == Len(w)

\* only the burst ceiling counts
IsLimited_BurstOnly(w, t, cfg) == Len(w) >= cfg.burst

\* is_limited, on the purged window
IsLimited(w, t, cfg) ==
    \/ Len(w) >= cfg.burst
    \/ /\ Len(w) >= cfg.calls
       /\ w # <<>>
       /\ t - Head(w) <= cfg.period

\* remaining_calls() counts against burst
RemainingCalls_UsesBurst(w, cfg) == NonNegative(cfg.burst - Len(w))

\* remaining_calls(), on the purged window
RemainingCalls(w, cfg) == NonNegative(cfg.calls - Len(w))

OpReport(op, at, value, limited) ==
    [op |-> op, at |-> at, status |-> "success", delay |-> 0,
     value |-> value, limited |-> limited]

OpGaps(cfg) == {0, cfg.period, cfg.period + 1}

\* a thread calls op and takes the lock (`with self._lock:`); acquire()
\* then reads the clock (line 99), is_limited reads it in
\* _clean_old_timestamps (line 62) and once more at line 146
LockEnter(t, op) ==
    /\ pc[t] = "idle"
    /\ ncalls < MaxAcquires
    /\ LockFree
    /\ \E d \in OpGaps(config) :
        /\ now + d <= MaxTime
        /\ now' = now + d
    /\ ncalls' = ncalls + 1
    /\ lock' = t
    /\ pc' = [pc EXCEPT ![t] = Inside(op)]
    /\ tnow' = [tnow EXCEPT ![t] =
          IF op \in {"acquire", "is_limited"} THEN now' ELSE @]
    /\ UNCHANGED <<args, config, window, ret, attempt, wakeAt, outcomes, sleeps,
                   rlsleeps, result, gets, results>>

\* what the body of a locked operation leaves and returns
LockedExit(t, op, at, w, value, limited) ==
    /\ lock = t
    /\ window' = w
    /\ lock' = 0
    /\ results' = Append(results, OpReport(op, at, value, limited))
    /\ tnow' = [tnow EXCEPT ![t] = 0]
    /\ pc' = [pc EXCEPT ![t] = "idle"]
    /\ UNCHANGED <<args, now, config, ret, attempt, wakeAt, outcomes, sleeps,
                   rlsleeps, result, gets, ncalls>>

\* acquire(), lines 101-120: the thread logs the outcome and is free for
\* its next call
AcquireReturn(t) ==
    /\ pc[t] = Inside("acquire")
    /\ lock = t
    /\ LET r == Acquire(window, tnow[t], now, config) IN
        /\ window' = r.window
        /\ results' = Append(results, Report(t, r))
    /\ lock' = 0
    /\ tnow' = [tnow EXCEPT ![t] = 0]
    /\ pc' = [pc EXCEPT ![t] = "idle"]
    /\ UNCHANGED <<args, now, config, ret, attempt, wakeAt, outcomes, sleeps,
                   rlsleeps, result, gets, ncalls>>

ResetExit(t) ==
    /\ pc[t] = Inside("reset")
    /\ LockedExit(t, "reset", now, Reset(window), 0, FALSE)

CurrentUsageExit(t) ==
    /\ pc[t] = Inside("current_usage")
    /\ LET w == CleanOldTimestamps(window, now, config.period) IN
       LockedExit(t, "current_usage", now, w, CurrentUsage(w), FALSE)

\* is_limited: the purge at the first clock read, the age of the oldest
\* entry at the second; the report carries both reads (at, value)
IsLimitedExit(t) ==
    /\ pc[t] = Inside("is_limited")
    /\ LET w == CleanOldTimestamps(window, tnow[t], config.period) IN
       LockedExit(t, "is_limited", tnow[t], w, now, IsLimited(w, now, config))

RemainingCallsExit(t) ==
    /\ pc[t] = Inside("remaining_calls")
    /\ LET w == CleanOldTimestamps(window, now, config.period) IN
       LockedExit(t, "remaining_calls", now, w, RemainingCalls(w, config),
                  FALSE)

NextOps ==
    \/ \E t \in OpThreads :
        \/ \E op \in Ops : LockEnter(t, op)
        \/ AcquireReturn(t)
        \/ ResetExit(t)
        \/ CurrentUsageExit(t)
        \/ IsLimitedExit(t)
        \/ RemainingCallsExit(t)
    \/ ClockDrift

SpecOps == Init /\ [][NextOps]_vars

----------------------------------------------------------------------------
(* Construction of a RateLimitConfig from arbitrary arguments *)

ValueError(msg) == [kind |-> "raise", exc |-> "ValueError", msg |-> <<msg>>]
Constructed == [kind |-> "return", exc |-> "none", msg |-> <<>>]

\* the field values before __post_init__ has run
NoConfig == [calls |-> 0, period |-> 0, burst |-> 0]

\* calls = 0 is let through
PostInit_AllowsZeroCalls(calls, period, burst) ==
    IF calls < 0
    THEN [result |-> ValueError("calls must be greater than 0"),
          config |-> NoConfig]
    ELSE IF period <= 0
    THEN [result |-> ValueError("period must be greater than 0"),
          config |-> NoConfig]
    ELSE IF burst # None /\ burst[1] < calls
    THEN [result |-> ValueError("burst must be greater than or equal to calls"),
          config |-> NoConfig]
    ELSE [result |-> Constructed,
          config |-> [calls |-> calls, period |-> period,
                      burst |-> IF burst = None THEN calls ELSE burst[1]]]

\* RateLimitConfig.__post_init__ and the burst property
PostInit(calls, period, burst) ==
    IF calls <= 0
    THEN [result |-> ValueError("calls must be greater than 0"),
          config |-> NoConfig]
    ELSE IF period <= 0
    THEN [result |-> ValueError("period must be greater than 0"),
          config |-> NoConfig]
    ELSE IF burst # None /\ burst[1] < calls
    THEN [result |-> ValueError("burst must be greater than or equal to calls"),
          config |-> NoConfig]
    ELSE [result |-> Constructed,
          config |-> [calls |-> calls, period |-> period,
                      burst |-> IF burst = None THEN calls ELSE burst[1]]]

CallsArgs == (-1)..MaxCalls
PeriodArgs == {-TicksPerSecond, 0, 1, TicksPerSecond}
BurstArgs == {None} \cup {Some(b) : b \in (-1)..(MaxCalls + 1)}
ConfigArgs ==
    [op : {"RateLimitConfig"}, calls : CallsArgs, period : PeriodArgs,
     burst : BurstArgs]

InitConfig ==
    /\ args \in ConfigArgs
    /\ config = NoConfig
    /\ now = 0
    /\ window = <<>>
    /\ lock = 0
    /\ pc = [t \in Threads |-> "idle"]
    /\ tnow = [t \in Threads |-> 0]
    /\ ret = [t \in Threads |-> NoRet]
    /\ attempt = [t \in Threads |-> 0]
    /\ wakeAt = [t \in Threads |-> 0]
    /\ outcomes = [t \in Threads |-> <<>>]
    /\ sleeps = [t \in Threads |-> <<>>]
    /\ rlsleeps = [t \in Threads |-> <<>>]
    /\ result = [t \in Threads |-> NoResult]
    /\ gets = <<>>
    /\ results = <<>>
    /\ ncalls = 0

\* RateLimitConfig(calls, period, _burst)
Construct(t) ==
    /\ pc[t] = "idle"
    /\ args.op = "RateLimitConfig"
    /\ LET r == PostInit(args.calls, args.period, args.burst) IN
        /\ config' = r.config
        /\ result' = [result EXCEPT ![t] = r.result]
    /\ pc' = [pc EXCEPT ![t] = "done"]
    /\ UNCHANGED <<args, now, window, lock, tnow, ret, attempt, wakeAt,
                   outcomes, sleeps, rlsleeps, gets, results, ncalls>>

NextConfig == \E t \in {MainThread} : Construct(t)

SpecConfig == InitConfig /\ [][NextConfig]_vars

----------------------------------------------------------------------------
(* acquire() under a patched time.monotonic: each of its two clock reads
   returns whatever the test supplies, so time may stand still, jump or
   go backwards between reads and between calls. *)

ClockReadings == {0, TicksPerSecond, TicksPerSecond + Buffer, MaxTime}

MockedAcquire(t, now1, now2) ==
    /\ pc[t] \in {"idle", "done"}
    /\ ncalls < MaxAcquires
    /\ lock = 0
    /\ LET r == Acquire(window, now1, now2, config) IN
        /\ window' = r.window
        /\ ret' = [ret EXCEPT ![t] = [kind |-> r.kind, delay |-> r.delay]]
    /\ now' = now2
    /\ ncalls' = ncalls + 1
    /\ pc' = [pc EXCEPT ![t] = "done"]
    /\ UNCHANGED <<args, config, lock, tnow, attempt, wakeAt, outcomes,
                   sleeps, rlsleeps, result, gets, results>>

NextClock ==
    \E t \in {MainThread} :
        \E now1 \in ClockReadings, now2 \in ClockReadings :
            MockedAcquire(t, now1, now2)

SpecClock == Init /\ [][NextClock]_vars

----------------------------------------------------------------------------
(* BCRAConnector.get_datos_variable: validation of the arguments, then
   _make_request, then the handling of what _make_request raised.  Dates
   are day numbers. *)

MaxQueries == 2
MinLimit == 10
MaxLimit == 3000
OneYear == 365

DatosArgs ==
    [op : {"get_datos_variable"},
     desde : {Some(0), Some(5)},
     hasta : {Some(1), Some(366)},
     limit : {None, Some(MinLimit - 1), Some(MinLimit), Some(MaxLimit + 1)},
     offset : {None, Some(-1)}]

NoError == [kind |-> "none", exc |-> "none", msg |-> <<>>]

\* the offset is not checked
ValidateDatosVariable_NoOffsetCheck(a) ==
    IF a.desde # None /\ a.hasta # None /\ a.desde[1] > a.hasta[1]
    THEN ValueError("'desde' date must be earlier than or equal to 'hasta' date")
    ELSE IF a.limit # None /\ ~(MinLimit <= a.limit[1] /\ a.limit[1] <= MaxLimit)
    THEN ValueError("Limit must be between 10 and 3000")
    ELSE NoError

\* lines 292-305 of get_datos_variable
ValidateDatosVariable(a) ==
    IF a.desde # None /\ a.hasta # None /\ a.desde[1] > a.hasta[1]
    THEN ValueError("'desde' date must be earlier than or equal to 'hasta' date")
    ELSE IF a.limit # None /\ ~(MinLimit <= a.limit[1] /\ a.limit[1] <= MaxLimit)
    THEN ValueError("Limit must be between 10 and 3000")
    ELSE IF a.offset # None /\ a.offset[1] < 0
    THEN ValueError("Offset must be non-negative")
    ELSE NoError

\* get_datos_variable up to its call of _make_request
GetDatosVariable(t, a) ==
    /\ pc[t] \in {"idle", "returned"}
    /\ ncalls < MaxQueries
    /\ ncalls' = ncalls + 1
    /\ args' = a
    /\ attempt' = [attempt EXCEPT ![t] = 0]
    /\ outcomes' = [outcomes EXCEPT ![t] = <<>>]
    /\ sleeps' = [sleeps EXCEPT ![t] = <<>>]
    /\ rlsleeps' = [rlsleeps EXCEPT ![t] = <<>>]
    /\ ret' = [ret EXCEPT ![t] = NoRet]
    /\ LET v == ValidateDatosVariable(a) IN
        IF v.kind = "raise"
        THEN /\ pc' = [pc EXCEPT ![t] = "returned"]
             /\ result' = [result EXCEPT ![t] = v]
        ELSE /\ pc' = [pc EXCEPT ![t] = "acquire"]
             /\ result' = [result EXCEPT ![t] = NoResult]
    /\ UNCHANGED <<now, config, window, lock, tnow, wakeAt, gets, results>>

\* lines 334-340: a BCRAApiError is re-raised, any other exception is
\* wrapped in a BCRAApiError
DatosVariableExit(t) ==
    /\ pc[t] = "done"
    /\ args.op = "get_datos_variable"
    /\ pc' = [pc EXCEPT ![t] = "returned"]
    /\ result' = [result EXCEPT ![t] =
          IF @.kind = "raise" /\ @.exc # "BCRAApiError"
          THEN [kind |-> "raise", exc |-> "BCRAApiError",
                msg |-> <<"Unexpected error fetching data for variable">>]
          ELSE @]
    /\ UNCHANGED <<args, now, config, window, lock, tnow, ret, attempt,
                   wakeAt, outcomes, sleeps, rlsleeps, gets, results, ncalls>>

NextDatos ==
    \E t \in {MainThread} :
        \/ \E a \in DatosArgs : GetDatosVariable(t, a)
        \/ AcquireEnter(t)
        \/ AcquireExit(t)
        \/ RateLimitWake(t)
        \/ HttpGet(t)
        \/ BackoffWake(t)
        \/ DatosVariableExit(t)

SpecDatos == Init /\ [][NextDatos]_vars

----------------------------------------------------------------------------
(* One thread issues requests back to back against a session whose GET
   always answers 200 with a JSON object; each call of the patched GET
   takes no time or one tick. *)

MaxRequests == 4

GetLatency == {0, 1}

\* the next call of the loop, made as soon as the previous one returned
NextRequest(t) ==
    /\ pc[t] \in {"idle", "done"}
    /\ pc[t] = "done" => result[t].kind = "return"
    /\ ncalls < MaxRequests
    /\ ncalls' = ncalls + 1
    /\ pc' = [pc EXCEPT ![t] = "acquire"]
    /\ attempt' = [attempt EXCEPT ![t] = 0]
    /\ outcomes' = [outcomes EXCEPT ![t] = <<>>]
    /\ sleeps' = [sleeps EXCEPT ![t] = <<>>]
    /\ rlsleeps' = [rlsleeps EXCEPT ![t] = <<>>]
    /\ result' = [result EXCEPT ![t] = NoResult]
    /\ ret' = [ret EXCEPT ![t] = NoRet]
    /\ UNCHANGED <<args, now, config, window, lock, tnow, wakeAt, gets,
                   results>>

OkResponse == [kind |-> "response", status |-> 200, body |-> "obj", text |-> ""]

\* session.get patched to return status 200 and {"results": []}; the
\* request returns the decoded body (line 159) and the loop counts it
MockedGet(t) ==
    /\ pc[t] = "get"
    /\ \E e \in GetLatency :
        /\ now + e <= MaxTime
        /\ now' = now + e
    /\ gets' = Append(RecentGets(gets, now, config.period), now)
    /\ outcomes' = [outcomes EXCEPT ![t] = Append(@, OkResponse)]
    /\ LET c == Classify(OkResponse, attempt[t]) IN
        result' = [result EXCEPT ![t] =
            [kind |-> c.next, exc |-> c.exc, msg |-> c.msg]]
    /\ results' = Append(results, OpReport("request", now', Len(rlsleeps[t]), FALSE))
    /\ pc' = [pc EXCEPT ![t] = "done"]
    /\ UNCHANGED <<args, config, window, lock, tnow, ret, attempt, wakeAt,
                   sleeps, rlsleeps, ncalls>>

NextLoop ==
    \E t \in {MainThread} :
        \/ NextRequest(t)
        \/ AcquireEnter(t)
        \/ AcquireExit(t)
        \/ RateLimitWake(t)
        \/ MockedGet(t)

SpecLoop == Init /\ [][NextLoop]_vars

----------------------------------------------------------------------------
(* check_denunciado: the list of entities is fetched, the entity is looked
   up by name, then the check is looked up at
   cheques/v1.0/denunciados/{codigo_entidad}/{numero_cheque}. *)

\* entity codes and check numbers, some with the digits 404 in them
EntityCodes == {11, 404}
CheckNumbers == {0, 7, 1404}

CheckArgs ==
    [op : {"check_denunciado"},
     stage : {"entidades"},
     found : BOOLEAN,
     codigo : EntityCodes,
     numero : CheckNumbers,
     denunciado : BOOLEAN]

\* the decimal digits an f-string writes for an int
RECURSIVE DigitsOf(_)
DigitsOf(n) == IF n < 10 THEN <<n>> ELSE Append(DigitsOf(n \div 10), n % 10)

\* `part in text` for sequences of characters
ContainsSeq(text, part) ==
    \E i \in 1..(Len(text) - Len(part) + 1) :
        SubSeq(text, i, i + Len(part) - 1) = part

\* The runs of digits in a fragment of a message: "url" is the URL of the
\* check lookup, "numero" the check number, a status code its own digits.
DigitRuns(frag, a) ==
    CASE frag = "url" -> {<<1>>, <<0>>, DigitsOf(a.codigo), DigitsOf(a.numero)}
      [] frag = "numero" -> {DigitsOf(a.numero)}
      [] OTHER -> {DigitsOf(n) : n \in {st \in Statuses : NumText(st) = frag}}

\* "404" in str(e)
Has404(msg, a) ==
    \E i \in 1..Len(msg) :
        \E run \in DigitRuns(msg[i], a) : ContainsSeq(run, <<4, 0, 4>>)

ReturnsValue(b) ==
    [kind |-> "return", exc |-> "none",
     msg |-> <<IF b THEN "True" ELSE "False">>]

\* check_denunciado up to the request of get_entidades
CheckDenunciado(t, a) ==
    /\ pc[t] = "idle"
    /\ args' = a
    /\ attempt' = [attempt EXCEPT ![t] = 0]
    /\ outcomes' = [outcomes EXCEPT ![t] = <<>>]
    /\ sleeps' = [sleeps EXCEPT ![t] = <<>>]
    /\ rlsleeps' = [rlsleeps EXCEPT ![t] = <<>>]
    /\ ret' = [ret EXCEPT ![t] = NoRet]
    /\ IF a.numero <= 0
       THEN /\ pc' = [pc EXCEPT ![t] = "returned"]
            /\ result' = [result EXCEPT ![t] =
                  ValueError("Check number must be positive.")]
       ELSE /\ pc' = [pc EXCEPT ![t] = "acquire"]
            /\ result' = [result EXCEPT ![t] = NoResult]
    /\ UNCHANGED <<now, config, window, lock, tnow, wakeAt, gets, results,
                   ncalls>>

\* What get_entidades makes of the result r of its request, whose last
\* response is o: a body without "results" is refused, and every exception,
\* BCRAApiError included, is wrapped by the `except Exception` clause.
GetEntidades(r, o) ==
    IF r.kind = "return"
    THEN IF o.body = "obj"
         THEN r
         ELSE [kind |-> "raise", exc |-> "BCRAApiError",
               msg |-> <<"Error fetching financial entities",
                         "Invalid response format for entities endpoint">>]
    ELSE [kind |-> "raise", exc |-> "BCRAApiError",
          msg |-> <<"Error fetching financial entities">> \o r.msg]

\* What get_cheque_denunciado makes of the result r of its request: a
\* BCRAApiError is re-raised as it is, any other exception is wrapped in a
\* message that quotes the check number.
GetChequeDenunciado(r, o, a) ==
    IF r.kind = "return"
    THEN IF o.body = "obj"
         THEN ReturnsValue(a.denunciado)
         ELSE [kind |-> "raise", exc |-> "BCRAApiError",
               msg |-> <<"Invalid response format for reported check endpoint">>]
    ELSE IF r.exc = "BCRAApiError"
    THEN r
    ELSE [kind |-> "raise", exc |-> "BCRAApiError",
          msg |-> <<"Error fetching reported check", "numero", "str(e)">>]

\* the response the request ended on; a request that raised before any
\* GET has none, and its result does not depend on one
LastResponse(t) ==
    IF Len(outcomes[t]) > 0 THEN outcomes[t][Len(outcomes[t])] ELSE OkResponse

\* the request of get_entidades has ended: its error is re-raised, an
\* unknown entity name raises ValueError, otherwise the check is looked up
EntidadesExit(t) ==
    /\ pc[t] = "done"
    /\ args.op = "check_denunciado"
    /\ args.stage = "entidades"
    /\ LET e == GetEntidades(result[t], LastResponse(t)) IN
        IF e.kind = "raise"
        THEN /\ pc' = [pc EXCEPT ![t] = "returned"]
             /\ result' = [result EXCEPT ![t] = e]
             /\ UNCHANGED <<args, attempt, outcomes, sleeps, rlsleeps, ret>>
        ELSE IF ~args.found
        THEN /\ pc' = [pc EXCEPT ![t] = "returned"]
             /\ result' = [result EXCEPT ![t] = ValueError("Entity not found")]
             /\ UNCHANGED <<args, attempt, outcomes, sleeps, rlsleeps, ret>>
        ELSE /\ pc' = [pc EXCEPT ![t] = "acquire"]
             /\ args' = [args EXCEPT !.stage = "cheque"]
             /\ result' = [result EXCEPT ![t] = NoResult]
             /\ attempt' = [attempt EXCEPT ![t] = 0]
             /\ outcomes' = [outcomes EXCEPT ![t] = <<>>]
             /\ sleeps' = [sleeps EXCEPT ![t] = <<>>]
             /\ rlsleeps' = [rlsleeps EXCEPT ![t] = <<>>]
             /\ ret' = [ret EXCEPT ![t] = NoRet]
    /\ UNCHANGED <<now, config, window, lock, tnow, wakeAt, gets, results,
                   ncalls>>

\* the request of get_cheque_denunciado has ended: the value of
\* cheque.denunciado is returned, a BCRAApiError with 404 in its text
\* gives False, any other is re-raised
ChequeExit(t) ==
    /\ pc[t] = "done"
    /\ args.op = "check_denunciado"
    /\ args.stage = "cheque"
    /\ pc' = [pc EXCEPT ![t] = "returned"]
    /\ LET c == GetChequeDenunciado(result[t], LastResponse(t), args) IN
        result' = [result EXCEPT ![t] =
            IF c.kind = "raise" /\ Has404(c.msg, args)
            THEN ReturnsValue(FALSE)
            ELSE c]
    /\ UNCHANGED <<args, now, config, window, lock, tnow, ret, attempt,
                   wakeAt, outcomes, sleeps, rlsleeps, gets, results, ncalls>>

NextCheque ==
    \E t \in {MainThread} :
        \/ \E a \in CheckArgs : CheckDenunciado(t, a)
        \/ AcquireEnter(t)
        \/ AcquireExit(t)
        \/ RateLimitWake(t)
        \/ HttpGet(t)
        \/ BackoffWake(t)
        \/ EntidadesExit(t)
        \/ ChequeExit(t)

SpecCheque == Init /\ [][NextCheque]_vars

----------------------------------------------------------------------------
(* get_currency_pair_evolution: the evolution of the base currency is
   requested, then that of the quote currency, each through
   get_currency_evolution and get_evolucion_moneda; the session's GET
   always answers 200 with a JSON object. *)

EvolucionMinLimit == 10
EvolucionMaxLimit == 1000
ExtraPoints == 5

\* numbers of days on both sides of each comparison made on the way
DaysArgs == {0, 1, 4, 5, 30, 995, 996}

PairArgs ==
    [op : {"get_currency_pair_evolution"},
     stage : {"base"},
     days : DaysArgs]

\* get_evolucion_moneda up to its request
GetEvolucionMoneda(limit, offset) ==
    IF ~(EvolucionMinLimit <= limit /\ limit <= EvolucionMaxLimit)
    THEN ValueError("Limit must be between 10 and 1000")
    ELSE IF offset < 0
    THEN ValueError("Offset must be non-negative")
    ELSE NoError

\* get_currency_evolution up to its request
GetCurrencyEvolution(days, limit, offset) ==
    IF days <= 0
    THEN ValueError("Number of days must be positive.")
    ELSE GetEvolucionMoneda(limit, offset)

\* get_currency_pair_evolution up to the request of the base currency
GetCurrencyPairEvolution(t, a) ==
    /\ pc[t] = "idle"
    /\ args' = a
    /\ attempt' = [attempt EXCEPT ![t] = 0]
    /\ outcomes' = [outcomes EXCEPT ![t] = <<>>]
    /\ sleeps' = [sleeps EXCEPT ![t] = <<>>]
    /\ rlsleeps' = [rlsleeps EXCEPT ![t] = <<>>]
    /\ ret' = [ret EXCEPT ![t] = NoRet]
    /\ LET v == IF a.days <= 0
                THEN ValueError("Number of days must be positive.")
                ELSE GetCurrencyEvolution(a.days, a.days + ExtraPoints, 0) IN
        IF v.kind = "raise"
        THEN /\ pc' = [pc EXCEPT ![t] = "returned"]
             /\ result' = [result EXCEPT ![t] = v]
        ELSE /\ pc' = [pc EXCEPT ![t] = "acquire"]
             /\ result' = [result EXCEPT ![t] = NoResult]
    /\ UNCHANGED <<now, config, window, lock, tnow, wakeAt, gets, results,
                   ncalls>>

\* the request for the base currency has ended: its BCRAApiError is
\* re-raised, otherwise the quote currency is asked for with the same days
\* and limit
BaseEvolutionExit(t) ==
    /\ pc[t] = "done"
    /\ args.op = "get_currency_pair_evolution"
    /\ args.stage = "base"
    /\ LET v == GetCurrencyEvolution(args.days, args.days + ExtraPoints, 0) IN
        IF result[t].kind = "raise" \/ v.kind = "raise"
        THEN /\ pc' = [pc EXCEPT ![t] = "returned"]
             /\ result' = [result EXCEPT ![t] =
                   IF @.kind = "raise" THEN @ ELSE v]
             /\ UNCHANGED <<args, attempt, outcomes, sleeps, rlsleeps, ret>>
        ELSE /\ pc' = [pc EXCEPT ![t] = "acquire"]
             /\ args' = [args EXCEPT !.stage = "quote"]
             /\ result' = [result EXCEPT ![t] = NoResult]
             /\ attempt' = [attempt EXCEPT ![t] = 0]
             /\ outcomes' = [outcomes EXCEPT ![t] = <<>>]
             /\ sleeps' = [sleeps EXCEPT ![t] = <<>>]
             /\ rlsleeps' = [rlsleeps EXCEPT ![t] = <<>>]
             /\ ret' = [ret EXCEPT ![t] = NoRet]
    /\ UNCHANGED <<now, config, window, lock, tnow, wakeAt, gets, results,
                   ncalls>>

\* the request for the quote currency has ended: its BCRAApiError is
\* re-raised, otherwise the list of rates is returned
QuoteEvolutionExit(t) ==
    /\ pc[t] = "done"
    /\ args.op = "get_currency_pair_evolution"
    /\ args.stage = "quote"
    /\ pc' = [pc EXCEPT ![t] = "returned"]
    /\ UNCHANGED <<args, now, config, window, lock, tnow, ret, attempt,
                   wakeAt, outcomes, sleeps, rlsleeps, result, gets, results,
                   ncalls>>

NextPair ==
    \E t \in {MainThread} :
        \/ \E a \in PairArgs : GetCurrencyPairEvolution(t, a)
        \/ AcquireEnter(t)
        \/ AcquireExit(t)
        \/ RateLimitWake(t)
        \/ MockedGet(t)
        \/ BaseEvolutionExit(t)
        \/ QuoteEvolutionExit(t)

SpecPair == Init /\ [][NextPair]_vars

----------------------------------------------------------------------------
(* Several threads run requests on one connector, hence on one limiter;
   the session's GET always answers 200 with a JSON object. *)

NextConn ==
    \E t \in Threads :
        \/ NextRequest(t)
        \/ AcquireEnter(t)
        \/ AcquireExit(t)
        \/ RateLimitWake(t)
        \/ MockedGet(t)

SpecConn == Init /\ [][NextConn]_vars

----------------------------------------------------------------------------
(* One call of _make_request on a fresh connector, run to its end: the
   thread keeps running, each sleep returns and each GET ends with a
   response, a timeout or an error. *)

\* the one call of the behaviour
FirstRequest(t) ==
    /\ pc[t] = "idle"
    /\ StartRequest(t)

\* the steps of the call once it has started
RequestStep(t) ==
    \/ AcquireEnter(t)
    \/ AcquireExit(t)
    \/ RateLimitWake(t)
    \/ HttpGet(t)
    \/ BackoffWake(t)

NextTerm ==
    \E t \in {MainThread} :
        \/ FirstRequest(t)
        \/ RequestStep(t)

SpecTerm ==
    /\ Init
    /\ [][NextTerm]_vars
    /\ WF_vars(RequestStep(MainThread))

----------------------------------------------------------------------------
(* Threads that run requests on one connector and also call reset() and
   the introspection calls of its limiter. A call that finds the lock held
   waits for it. Every thread that can take a step takes one in the end:
   the scheduler runs every runnable thread, a sleep returns and a GET
   ends. *)

MaxLiveCalls == 3

\* the operations that are called on the limiter directly
DirectOps == Ops \ {"acquire"}

\* the position of a thread that waits for the lock at the start of op
Waiting(op) ==
    CASE op = "reset" -> "call_reset"
      [] op = "current_usage" -> "call_current_usage"
      [] op = "is_limited" -> "call_is_limited"
      [] op = "remaining_calls" -> "call_remaining_calls"
      [] op = "acquire" -> "acquire"

\* a thread starts a request as soon as its previous call has ended
LiveRequest(t) ==
    /\ ncalls < MaxLiveCalls
    /\ NextRequest(t)

\* a thread calls op and reaches `with self._lock:`
OpCall(t, op) ==
    /\ pc[t] \in {"idle", "done"}
    /\ ncalls < MaxLiveCalls
    /\ ncalls' = ncalls + 1
    /\ pc' = [pc EXCEPT ![t] = Waiting(op)]
    /\ UNCHANGED <<args, now, config, window, lock, tnow, ret, attempt, wakeAt,
                   outcomes, sleeps, rlsleeps, result, gets, results>>

\* `with self._lock:` of op succeeds; is_limited then reads the clock in
\* _clean_old_timestamps
OpEnter(t, op) ==
    /\ pc[t] = Waiting(op)
    /\ LockFree
    /\ lock' = t
    /\ pc' = [pc EXCEPT ![t] = Inside(op)]
    /\ tnow' = [tnow EXCEPT ![t] = IF op = "is_limited" THEN now ELSE @]
    /\ UNCHANGED <<args, now, config, window, ret, attempt, wakeAt, outcomes,
                   sleeps, rlsleeps, result, gets, results, ncalls>>

\* the body of a direct call runs and the lock is given back; the caller
\* does not keep what the call returned. reset() clears the window, the
\* introspection calls purge it (is_limited at its first clock read).
OpExit(t, op) ==
    /\ pc[t] = Inside(op)
    /\ lock = t
    /\ window' = IF op = "reset"
                 THEN Reset(window)
                 ELSE CleanOldTimestamps(window,
                          IF op = "is_limited" THEN tnow[t] ELSE now,
                          config.period)
    /\ lock' = 0
    /\ tnow' = [tnow EXCEPT ![t] = 0]
    /\ pc' = [pc EXCEPT ![t] = "idle"]
    /\ UNCHANGED <<args, now, config, ret, attempt, wakeAt, outcomes, sleeps,
                   rlsleeps, result, gets, results, ncalls>>

\* session.get answers 200 with a JSON object and the request returns it
LiveGet(t) ==
    /\ pc[t] = "get"
    /\ gets' = Append(RecentGets(gets, now, config.period), now)
    /\ outcomes' = [outcomes EXCEPT ![t] = Append(@, OkResponse)]
    /\ LET c == Classify(OkResponse, attempt[t]) IN
        result' = [result EXCEPT ![t] =
            [kind |-> c.next, exc |-> c.exc, msg |-> c.msg]]
    /\ pc' = [pc EXCEPT ![t] = "done"]
    /\ UNCHANGED <<args, now, config, window, lock, tnow, ret, attempt, wakeAt,
                   sleeps, rlsleeps, results, ncalls>>

\* the steps of thread t that do not start a call
LiveStep(t) ==
    \/ AcquireEnter(t)
    \/ AcquireExit(t)
    \/ RateLimitWake(t)
    \/ LiveGet(t)
    \/ \E op \in DirectOps : OpEnter(t, op)
    \/ \E op \in DirectOps : OpExit(t, op)

NextLive ==
    \E t \in OpThreads :
        \/ LiveRequest(t)
        \/ \E op \in DirectOps : OpCall(t, op)
        \/ LiveStep(t)

SpecLive ==
    /\ Init
    /\ [][NextLive]_vars
    /\ \A t \in OpThreads : WF_vars(LiveStep(t))

----------------------------------------------------------------------------
(* Vocabulary of the properties *)

Done(t) == pc[t] = "done"
NGets(t) == Len(outcomes[t])
LastOutcome(t) == outcomes[t][Len(outcomes[t])]

IsTimeout(o) == o.kind = "timeout"
IsSSLFailure(o) ==
    /\ o.kind = "connerr"
    /\ o.text \in {"SSL: CERTIFICATE_VERIFY_FAILED", "ssl handshake failure"}
IsPlainConnErr(o) == o.kind = "connerr" /\ o.text = "Connection refused"
IsSuccess(o) == o.kind = "response" /\ o.status = 200 /\ o.body \in {"obj", "errobj"}
IsErrorStatus(o) == o.kind = "response" /\ o.status \in {400, 404, 429, 500, 503}
IsInvalidJson(o) == o.kind = "response" /\ o.status = 200 /\ o.body = "invalid"

RaisedApiError(t, frag) ==
    /\ result[t].kind = "raise"
    /\ result[t].exc = "BCRAApiError"
    /\ MsgHas(result[t].msg, frag)

\* the HTTP GETs issued in the period that ends now
GetsInLastPeriod == RecentGets(gets, now, config.period)

WithinOnePeriod(i) == results[i].at - results[1].at < config.period
FreeCalls == {i \in 1..Len(results) :
                results[i].status = "success" /\ results[i].delay = 0}
DelayedCalls == {i \in 1..Len(results) :
                   results[i].status = "success" /\ results[i].delay > 0}
EachWorkerCalledOnce ==
    /\ ncalls = NThreads
    /\ \A t \in Threads : Done(t)

----------------------------------------------------------------------------
(* Properties *)

\* C1: starting from an empty window, of the acquire() calls made within
\* one period of the first, each of the first `burst` returns zero delay
\* and call number burst + 1 returns a positive delay.
C1_FirstBurstCallsAreFree ==
    \A i \in 1..Len(results) :
        WithinOnePeriod(i) =>
            /\ i <= config.burst => i \in FreeCalls
            /\ i = config.burst + 1 => i \in DelayedCalls

\* C2: the HTTP GETs issued within any interval of length `period` never
\* number more than `burst`, and never more than `calls` once the interval
\* lies after the first period.
C2_GetsPerPeriodBounded ==
    /\ Len(GetsInLastPeriod) <= config.burst
    /\ (Len(GetsInLastPeriod) > 0 /\ Head(GetsInLastPeriod) > config.period)
          => Len(GetsInLastPeriod) <= config.calls

\* C3: when N > burst threads each call acquire() once on a fresh limiter
\* within one period, exactly `burst` calls return zero delay, exactly
\* N - burst return a positive delay, and none raises.
C3_ConcurrentBurstCount ==
    ( /\ EachWorkerCalledOnce
      /\ NThreads > config.burst
      /\ \A i \in 1..Len(results) : WithinOnePeriod(i) )
    => /\ Cardinality(FreeCalls) = config.burst
       /\ Cardinality(DelayedCalls) = NThreads - config.burst
       /\ \A i \in 1..Len(results) : results[i].status = "success"

\* C4: a call all of whose HTTP attempts time out ends only after exactly
\* MAX_RETRIES attempts, having slept RETRY_DELAY * 2^attempt after
\* attempts 0 and 1 and not after the last, with a timeout error.
C4_TimeoutsExhaustRetries ==
    \A t \in Threads :
        ( /\ Done(t)
          /\ NGets(t) >= 1
          /\ \A i \in 1..NGets(t) : IsTimeout(outcomes[t][i]) )
        => /\ NGets(t) = MAX_RETRIES
           /\ sleeps[t] = <<RETRY_DELAY, RETRY_DELAY * 2>>
           /\ RaisedApiError(t, "Request timed out after")

\* C5: under every rate-limit configuration, a call whose first k attempts
\* (k < MAX_RETRIES) fail with a non-SSL connection error and whose next
\* attempt would succeed makes that attempt and returns its result: it
\* does not end on connection errors alone before MAX_RETRIES attempts.
C5_RetriesUntilSuccess ==
    \A t \in Threads :
        ( /\ Done(t)
          /\ NGets(t) >= 1
          /\ \A i \in 1..(NGets(t) - 1) : IsPlainConnErr(outcomes[t][i]) )
        => /\ IsSuccess(LastOutcome(t)) => result[t].kind = "return"
           /\ IsPlainConnErr(LastOutcome(t)) => NGets(t) = MAX_RETRIES

\* C6: a call whose first MAX_RETRIES HTTP attempts fail with a non-SSL
\* connection error has ended at the third of them with the
\* connection-failure error, and no call issues more than MAX_RETRIES GETs.
C6_ConnectionErrorsExhaustRetries ==
    \A t \in Threads :
        /\ NGets(t) <= MAX_RETRIES
        /\ ( /\ NGets(t) >= MAX_RETRIES
             /\ \A i \in 1..MAX_RETRIES : IsPlainConnErr(outcomes[t][i]) )
           => /\ Done(t)
              /\ NGets(t) = MAX_RETRIES
              /\ RaisedApiError(t, "API request failed: Connection error to")

C6_Witness ==
    \E t \in Threads :
        /\ Done(t)
        /\ NGets(t) = MAX_RETRIES
        /\ \A i \in 1..MAX_RETRIES : IsPlainConnErr(outcomes[t][i])
        /\ sleeps[t] = <<1, 2>>

\* C7: an attempt answered with status 404 ends the call at once with a
\* BCRAApiError whose message holds "404" and a not-found indicator: no
\* GET and no backoff sleep follows it.
C7_NotFoundRaisesAtOnce ==
    \A t \in Threads :
        ( /\ NGets(t) >= 1
          /\ LastOutcome(t).kind = "response"
          /\ LastOutcome(t).status = 404 )
        => /\ Done(t)
           /\ RaisedApiError(t, "404")
           /\ RaisedApiError(t, "Resource not found at")
           /\ Len(sleeps[t]) = NGets(t) - 1

\* C8: an attempt answered with a 4xx/5xx status ends the call at once
\* with a BCRAApiError whose message carries the status code: no GET and
\* no backoff sleep follows it.
C8_ErrorStatusRaisesAtOnce ==
    \A t \in Threads :
        (NGets(t) >= 1 /\ IsErrorStatus(LastOutcome(t)))
        => /\ Done(t)
           /\ RaisedApiError(t, NumText(LastOutcome(t).status))
           /\ Len(sleeps[t]) = NGets(t) - 1

\* C9: an attempt answered with a success status and a body that is not
\* valid JSON ends the call at once with the "Invalid JSON response"
\* BCRAApiError: no GET and no backoff sleep follows it.
C9_InvalidJsonRaisesAtOnce ==
    \A t \in Threads :
        (NGets(t) >= 1 /\ IsInvalidJson(LastOutcome(t)))
        => /\ Done(t)
           /\ RaisedApiError(t, "Invalid JSON response from")
           /\ Len(sleeps[t]) = NGets(t) - 1

C9_Witness ==
    \E t \in Threads :
        /\ Done(t)
        /\ NGets(t) = 1
        /\ IsInvalidJson(LastOutcome(t))
        /\ sleeps[t] = <<>>

\* C10: an attempt that fails with a connection error bearing an SSL
\* signature ends the call at once with the SSL-verification BCRAApiError,
\* at every attempt index: no GET and no backoff sleep follows it.
C10_SSLFailureRaisesAtOnce ==
    \A t \in Threads :
        (NGets(t) >= 1 /\ IsSSLFailure(LastOutcome(t)))
        => /\ Done(t)
           /\ RaisedApiError(t, "SSL verification failed for")
           /\ Len(sleeps[t]) = NGets(t) - 1

C10_Witness ==
    \E t \in Threads :
        /\ Done(t)
        /\ NGets(t) = MAX_RETRIES
        /\ IsPlainConnErr(outcomes[t][1])
        /\ IsTimeout(outcomes[t][2])
        /\ LastOutcome(t).kind = "connerr"
        /\ LastOutcome(t).text = "ssl handshake failure"

\* RateLimitConfig(calls=1, period=2.0): burst defaults to calls
StrictConfig == RateLimitConfig(1, 2 * TicksPerSecond, None)

\* the first acquire() of the second request has returned or raised, and it
\* was made no later than one period after the GET of the first request
SecondRequestAcquired(t) ==
    /\ ncalls = 2
    /\ attempt[t] = 0
    /\ NGets(t) = 0
    /\ ret[t].kind # "none"
    /\ Len(gets) = 1
    /\ now - gets[1] <= config.period

\* C11: with calls=1, period=2.0 and burst defaulting to 1, the first
\* request of a fresh connector gets zero rate-limit delay, and a second
\* request issued within the period either fails at once with the
\* rate-limit error (no sleep, no GET) or sleeps until at least one period
\* after the first request went out; it is never admitted at once.
C11_SecondRequestWaitsOrFails ==
    \A t \in Threads :
        config = StrictConfig =>
            /\ (ncalls = 1 /\ attempt[t] = 0 /\ ret[t].kind # "none")
                  => ret[t].kind = "zero" /\ rlsleeps[t] = <<>>
            /\ SecondRequestAcquired(t) =>
                  \/ /\ ret[t].kind = "raise"
                     /\ Done(t)
                     /\ RaisedApiError(t, "Rate limit exceeded: Maximum burst capacity of")
                     /\ rlsleeps[t] = <<>>
                  \/ /\ ret[t].kind = "delay"
                     /\ pc[t] = "ratesleep"
                     /\ wakeAt[t] >= gets[1] + config.period

C11_Witness ==
    \E t \in Threads :
        /\ config = StrictConfig
        /\ SecondRequestAcquired(t)
        /\ now = gets[1]
        /\ Done(t)
        /\ RaisedApiError(t, "Rate limit exceeded: Maximum burst capacity of")

\* the positions in which a thread runs code that reads or changes the window
InsidePcs == {Inside(op) : op \in Ops}

NoAcquireBetween(i, j) ==
    \A k \in (i + 1)..(j - 1) : results[k].op # "acquire"
NoResetBetween(i, j) ==
    \A k \in (i + 1)..(j - 1) : results[k].op # "reset"

\* the calls before call j that acquire() admitted with zero delay no
\* longer than one period before call j and that no reset() has cleared
AdmittedBefore(j) ==
    {k \in 1..(j - 1) :
        /\ results[k].op = "acquire"
        /\ results[k].status = "success"
        /\ results[k].delay = 0
        /\ results[j].at - results[k].at <= config.period
        /\ NoResetBetween(k, j)}

\* C12: after reset(), whatever came before, current_usage reads 0 until
\* the next acquire(), and that next acquire() returns zero delay without
\* raising.
C12_ResetClearsUsage ==
    \A i \in 1..Len(results) : \A j \in (i + 1)..Len(results) :
        (results[i].op = "reset" /\ NoAcquireBetween(i, j)) =>
            /\ results[j].op = "current_usage" => results[j].value = 0
            /\ results[j].op = "acquire" =>
                  results[j].status = "success" /\ results[j].delay = 0

C12_Witness ==
    /\ Len(results) = 3
    /\ config.calls = 1
    /\ results[1].op = "acquire" /\ results[1].delay = 0
    /\ results[2].op = "reset"
    /\ results[3].op = "acquire" /\ results[3].at = results[1].at

\* C13: remaining_calls() is max(0, calls - usage), where usage is the
\* number of admissions of the last period: it is never negative, it is
\* `calls` on an untouched limiter, it is one less after each zero-delay
\* acquire() and it is 0 once `calls` admissions are in the window; a
\* current_usage read at the same moment gives the same usage.
C13_RemainingCalls ==
    \A j \in 1..Len(results) :
        results[j].op = "remaining_calls" =>
            /\ results[j].value >= 0
            /\ results[j].value =
                  NonNegative(config.calls - Cardinality(AdmittedBefore(j)))
            /\ (/\ j < Len(results)
                /\ results[j + 1].op = "current_usage"
                /\ results[j + 1].at = results[j].at)
                  => results[j].value =
                        NonNegative(config.calls - results[j + 1].value)

C13_Witness ==
    /\ Len(results) = 3
    /\ results[1].op = "remaining_calls" /\ results[1].value = 2
    /\ results[2].op = "acquire" /\ results[2].delay = 0
    /\ results[3].op = "remaining_calls" /\ results[3].value = 1
    /\ results[3].at = results[1].at

\* C19: in every interleaving of acquire(), reset(), current_usage,
\* is_limited and remaining_calls(), a thread that is inside a section that
\* reads or changes the window holds the lock, so at most one thread is
\* inside such a section at a time.
C19_WindowUnderLock ==
    /\ \A t \in Threads : pc[t] \in InsidePcs => lock = t
    /\ \A t, u \in Threads :
          (pc[t] \in InsidePcs /\ pc[u] \in InsidePcs) => t = u

C19_Witness ==
    \E t, u \in OpThreads :
        /\ t # u
        /\ pc[t] \in InsidePcs
        /\ pc[u] = "idle"
        /\ ncalls < MaxAcquires
        /\ window # <<>>

\* the arguments meet what the documentation of RateLimitConfig asks for
AcceptableConfigArgs ==
    /\ args.calls > 0
    /\ args.period > 0
    /\ (args.burst = None \/ args.burst[1] >= args.calls)

\* C14: constructing a RateLimitConfig succeeds exactly when calls > 0,
\* period > 0 and burst is omitted or at least calls, and raises ValueError
\* otherwise; a constructed configuration has burst >= calls > 0 and
\* period > 0, with burst equal to calls when it was omitted.
C14_ConfigValidation ==
    /\ config # NoConfig =>
          config.burst >= config.calls /\ config.calls > 0 /\ config.period > 0
    /\ \A t \in Threads :
          (args.op = "RateLimitConfig" /\ Done(t)) =>
              /\ AcceptableConfigArgs <=> result[t].kind = "return"
              /\ ~AcceptableConfigArgs =>
                    result[t].kind = "raise" /\ result[t].exc = "ValueError"
              /\ result[t].kind = "return" =>
                    /\ config.calls = args.calls
                    /\ config.period = args.period
                    /\ args.burst = None => config.burst = args.calls
                    /\ args.burst # None => config.burst = args.burst[1]
              /\ result[t].kind = "raise" => config = NoConfig

C14_Witness ==
    \E t \in Threads :
        /\ args.op = "RateLimitConfig"
        /\ Done(t)
        /\ result[t].kind = "return"
        /\ args.burst = None
        /\ config.burst = config.calls
        /\ config.calls > 1

\* C15: acquire() never returns a negative delay, whatever the state of
\* the window and whatever the clock reads, time going backwards included:
\* a returned delay is positive, and every other return is zero.
C15_DelayNeverNegative ==
    \A t \in Threads :
        /\ ret[t].delay >= 0
        /\ ret[t].kind = "delay" => ret[t].delay > 0

\* the clock went backwards inside acquire(): the window was full, the
\* computed delay was not positive and the call was admitted
C15_Witness ==
    \E t \in Threads :
        /\ ret[t].kind = "zero"
        /\ Len(window) > config.calls
        /\ config.burst > config.calls

DesdeAfterHasta(a) == a.desde # None /\ a.hasta # None /\ a.desde[1] > a.hasta[1]
LimitOutOfRange(a) == a.limit # None /\ (a.limit[1] < MinLimit \/ a.limit[1] > MaxLimit)
NegativeOffset(a) == a.offset # None /\ a.offset[1] < 0
InvalidDatosArgs(a) ==
    /\ a.op = "get_datos_variable"
    /\ (DesdeAfterHasta(a) \/ LimitOutOfRange(a) \/ NegativeOffset(a))

\* a range of more than one year with nothing else wrong
LongRangeArgs(a) ==
    /\ a.op = "get_datos_variable"
    /\ ~InvalidDatosArgs(a)
    /\ a.desde # None /\ a.hasta # None
    /\ a.hasta[1] - a.desde[1] > OneYear

RaisedValueError(t, text) ==
    /\ result[t].kind = "raise"
    /\ result[t].exc = "ValueError"
    /\ MsgHas(result[t].msg, text)

\* C16: a get_datos_variable call with desde later than hasta, limit
\* outside 10..3000 or a negative offset raises ValueError before any
\* network activity: the step that makes the call leaves the window, the
\* lock and the GETs issued as they were, acquire() is not called and the
\* call has issued no GET.
C16_InvalidArgsTouchNothing ==
    [][\A t \in {MainThread} :
          InvalidDatosArgs(args') =>
              /\ pc'[t] = "returned"
              /\ result'[t].kind = "raise"
              /\ result'[t].exc = "ValueError"
              /\ window' = window
              /\ lock' = lock
              /\ gets' = gets
              /\ ret'[t] = NoRet
              /\ outcomes'[t] = <<>>]_vars

\* an invalid call made on a connector whose window holds an admission
C16_Witness ==
    \E t \in Threads :
        /\ InvalidDatosArgs(args)
        /\ pc[t] = "returned"
        /\ result[t].exc = "ValueError"
        /\ window # <<>>
        /\ ncalls = 2

\* C17: a get_datos_variable call whose date range exceeds 365 days raises
\* ValueError "Date range must not exceed 1 year" and issues no HTTP GET.
C17_LongRangeRejected ==
    \A t \in {MainThread} :
        LongRangeArgs(args) =>
            /\ NGets(t) = 0
            /\ pc[t] = "returned" =>
                  RaisedValueError(t, "Date range must not exceed 1 year")

\* C18: every failure of _make_request reaches its caller as a
\* BCRAApiError, whatever the outcome of the HTTP attempts and of
\* acquire(): no exception of another type leaves _make_request.
C18_OnlyApiErrorEscapes ==
    \A t \in Threads :
        (Done(t) /\ result[t].kind = "raise") => result[t].exc = "BCRAApiError"

\* the acquire() calls of the last period that returned, with zero or
\* with positive delay
ReturnedInLastPeriod ==
    {i \in 1..Len(results) :
        /\ results[i].op = "acquire"
        /\ results[i].status = "success"
        /\ now - results[i].at <= config.period}

\* the timestamps of the window that a purge at `now` keeps
UnexpiredEntries == {k \in 1..Len(window) : now - window[k] <= config.period}

\* C20: every acquire() that returns, with zero or with positive delay,
\* records one admission timestamp, so the unexpired part of the window
\* has one entry for every call that the limiter let proceed within the
\* last period.
C20_EveryReturnRecorded ==
    Cardinality(UnexpiredEntries) = Cardinality(ReturnedInLastPeriod)

\* the acquire() of the current attempt did not admit the request
NotAdmitted(t) ==
    \/ pc[t] = "ratesleep"
    \/ Done(t) /\ ret[t].kind = "raise"

\* C21: whenever the purged window holds fewer than `burst` timestamps,
\* sizes from `calls` to burst - 1 included, acquire() admits at once: it
\* appends the current time and returns zero delay.  So a call that was
\* delayed or rejected found at least `burst` unexpired timestamps.
C21_BelowBurstAdmits ==
    \A t \in {MainThread} :
        /\ NotAdmitted(t) => Cardinality(UnexpiredEntries) >= config.burst
        /\ (pc[t] = "get" /\ ret[t].kind = "zero") =>
              window # <<>> /\ window[Len(window)] = now

\* the time of the oldest admission counted by AdmittedBefore(j)
OldestAdmission(j) ==
    CHOOSE x \in {results[k].at : k \in AdmittedBefore(j)} :
        \A k \in AdmittedBefore(j) : x <= results[k].at

\* the oldest admission was within `period` at the purge of call j and is
\* older at its second clock read
OldestExpiredMeanwhile(j) ==
    /\ AdmittedBefore(j) # {}
    /\ results[j].value - OldestAdmission(j) > config.period

\* C22 as stated: is_limited is true exactly when the purged window holds
\* at least `calls` timestamps.
C22_IsLimitedIffAtCalls ==
    \A j \in 1..Len(results) :
        results[j].op = "is_limited" =>
            (results[j].limited <=>
                Cardinality(AdmittedBefore(j)) >= config.calls)

\* C22 amended: is_limited is true exactly when the purged window holds at
\* least `calls` timestamps, except that with fewer than `burst` of them
\* it is false when the oldest one passes the age `period` between the
\* purge and the second clock read.
C22_IsLimitedUnlessExpiredMeanwhile ==
    \A j \in 1..Len(results) :
        results[j].op = "is_limited" =>
            (results[j].limited <=>
                /\ Cardinality(AdmittedBefore(j)) >= config.calls
                /\ ~(/\ Cardinality(AdmittedBefore(j)) < config.burst
                     /\ OldestExpiredMeanwhile(j)))

C22_Witness ==
    \E j \in 1..Len(results) :
        /\ results[j].op = "is_limited"
        /\ ~results[j].limited
        /\ Cardinality(AdmittedBefore(j)) >= config.calls
        /\ results[j].value > results[j].at

\* thread t leaves acquire() in this step
AcquireLeaves(t) == pc[t] = "locked" /\ pc'[t] # "locked"

\* the window after the step still holds every timestamp that is exactly
\* `period` old at the purge
KeepsEntriesAtPeriod ==
    \A k \in 1..Len(window) :
        now - window[k] = config.period =>
            \E m \in 1..Len(window') : window'[m] = window[k]

\* once every recorded timestamp is older than `period`, acquire() purges
\* them all, returns zero delay and leaves only the new timestamp
ExpiredWindowAdmits(t) ==
    UnexpiredEntries = {} =>
        /\ ret'[t].kind = "zero"
        /\ window' = <<tnow[t]>>

SuccessiveDelays(i) ==
    /\ i + 1 <= Len(results)
    /\ i \in DelayedCalls /\ (i + 1) \in DelayedCalls
    /\ results[i + 1].at = results[i].at

\* C24: once the limiter delays, successive acquire() calls made back to
\* back return evenly spaced delays: each is larger than the previous one
\* by period / calls.
C24_DelaysEvenlySpaced ==
    \A i \in 1..Len(results) :
        SuccessiveDelays(i) =>
            (results[i + 1].delay - results[i].delay) * config.calls
                = config.period

\* C25: the value returned by acquire() is time the caller spent inside
\* acquire(): when it returns a positive delay d, at least d has passed
\* between its first clock read and its return.
C25_DelayWasWaited ==
    [][\A t \in Threads :
          (AcquireLeaves(t) /\ ret'[t].kind = "delay") =>
              now' - tnow[t] >= ret'[t].delay]_vars

\* burst = 2 * calls, as in DEFAULT_RATE_LIMIT
DefaultShaped(cfg) == cfg.burst = 2 * cfg.calls

RateLimitRejected(t) ==
    RaisedApiError(t, "Rate limit exceeded: Maximum burst capacity of")

SecondRequestRefused(t) ==
    /\ config.calls = 1 /\ config.burst = 1
    /\ ncalls = 2
    /\ Done(t)
    /\ NGets(t) = 0
    /\ Len(gets) = 1

\* C27: with calls = burst = 1 and one request admitted, a second request
\* raises a BCRAApiError that mentions the rate limit, and it raises only
\* when at least one period has passed since it was issued (hence since
\* the first request was sent).
C27_RejectedAfterAPeriod ==
    \A t \in {MainThread} :
        SecondRequestRefused(t) =>
            /\ RateLimitRejected(t)
            /\ now - gets[1] >= config.period

\* the request ended on a response with an error status
EndedOnErrorStatus(t) ==
    /\ Done(t)
    /\ NGets(t) > 0
    /\ IsErrorStatus(LastOutcome(t))

\* C28: a response with an error status raises a BCRAApiError whose message
\* carries the errorMessages of the body when the body is a JSON object
\* that has them, and the reason phrase of the response in every other
\* case, for 404 as for the other statuses.
C28_ErrorMessagesElseReason ==
    \A t \in {MainThread} :
        EndedOnErrorStatus(t) =>
            IF LastOutcome(t).body = "errobj"
            THEN RaisedApiError(t, "errorMessages")
            ELSE RaisedApiError(t, "reason")

\* the last positive delay acquire() returned to this request was slept out
SleptReturnedDelay(t) ==
    /\ Len(rlsleeps[t]) > 0
    /\ rlsleeps[t][Len(rlsleeps[t])] = ret[t].delay
    /\ now >= wakeAt[t]

\* C29: every GET of _make_request, first attempt or retry, comes after the
\* one acquire() of its attempt returned without raising, and after the
\* sleep of the returned delay when that delay is positive; an attempt
\* whose acquire() raised sends no GET.
C29_GetAfterAcquireOfItsAttempt ==
    \A t \in {MainThread} :
        /\ NGets(t) <= attempt[t] + 1
        /\ pc[t] \in {"acquire", "locked", "ratesleep", "get"} =>
              NGets(t) = attempt[t]
        /\ pc[t] = "get" =>
              /\ ret[t].kind \in {"zero", "delay"}
              /\ ret[t].kind = "delay" => SleptReturnedDelay(t)
        /\ pc[t] = "backoff" => NGets(t) = attempt[t] + 1
        /\ (Done(t) /\ ret[t].kind = "raise") =>
              /\ RateLimitRejected(t)
              /\ NGets(t) = attempt[t]

\* a retry sent its GET after sleeping the delay acquire() returned, and
\* the request ended there
C29_Witness ==
    \E t \in {MainThread} :
        /\ Done(t)
        /\ attempt[t] >= 1
        /\ NGets(t) = attempt[t] + 1
        /\ ret[t].kind = "delay"
        /\ Len(rlsleeps[t]) > 0

\* check_denunciado has ended after looking the check up
LookupEnded(t) ==
    /\ pc[t] = "returned"
    /\ args.op = "check_denunciado"
    /\ args.stage = "cheque"

\* the lookup was refused by the rate limiter, or ended on a timeout, a
\* connection error, a failed request or a response with an error status
LookupFailed(t) ==
    \/ NGets(t) = 0
    \/ LastOutcome(t).kind # "response"
    \/ IsErrorStatus(LastOutcome(t))

\* the lookup ended on a response with status 404
LookupNotFound(t) ==
    /\ NGets(t) > 0
    /\ LastOutcome(t).kind = "response"
    /\ LastOutcome(t).status = 404

\* C30: check_denunciado gives False for a check that was not found only
\* when the lookup was answered with status 404; any other failure of the
\* lookup is raised as a BCRAApiError, whatever the entity code and the
\* check number.
C30_FalseOnlyOn404 ==
    \A t \in {MainThread} :
        (LookupEnded(t) /\ LookupFailed(t) /\ ~LookupNotFound(t)) =>
            /\ result[t].kind = "raise"
            /\ result[t].exc = "BCRAApiError"

\* get_currency_pair_evolution has ended
PairEvolutionEnded(t) ==
    /\ pc[t] = "returned"
    /\ args.op = "get_currency_pair_evolution"

\* C31: get_currency_pair_evolution raises ValueError only when days <= 0;
\* for every days >= 1 it passes validation and goes on to request the
\* evolution of the currencies.
C31_ValueErrorOnlyForNonPositiveDays ==
    \A t \in {MainThread} :
        (PairEvolutionEnded(t) /\ args.days >= 1) =>
            /\ result[t].exc # "ValueError"
            /\ Len(gets) > 0 \/ RateLimitRejected(t)

\* the step appends nothing: the window after it is a tail of the window
\* before it
AppendsNothing ==
    /\ Len(window') <= Len(window)
    /\ \A m \in 1..Len(window') :
          window'[m] = window[m + Len(window) - Len(window')]

\* the report of the call that has just returned
LastReport == results'[Len(results')]

WindowFull == Cardinality(UnexpiredEntries) >= config.calls

Admitted(i) ==
    /\ results[i].op = "acquire"
    /\ results[i].status = "success"
    /\ results[i].delay = 0

\* call j is the first acquire() made once the delay returned to call i has
\* passed, and no acquire() was admitted between the two
MadeAfterDelayOf(i, j) ==
    /\ i < j
    /\ results[i].op = "acquire" /\ results[i].delay > 0
    /\ results[j].op = "acquire"
    /\ results[j].at >= results[i].at + results[i].delay
    /\ \A k \in (i + 1)..(j - 1) : ~Admitted(k)

\* C35: when acquire() returns a positive delay d at time t and no other
\* acquire() is admitted in between, an acquire() made at t + d or later
\* returns zero delay and records its timestamp.
C35_DelayIsLongEnough ==
    \A i, j \in 1..Len(results) :
        MadeAfterDelayOf(i, j) =>
            /\ Admitted(j)
            /\ j = Len(results) =>
                  window # <<>> /\ window[Len(window)] = results[j].at

\* a call made exactly when the returned delay had passed was admitted
C35_Witness ==
    \E i, j \in 1..Len(results) :
        /\ MadeAfterDelayOf(i, j)
        /\ results[j].at = results[i].at + results[i].delay
        /\ Admitted(j)

\* the GETs sent less than one period ago
GetsWithinPeriod == {k \in 1..Len(gets) : now - gets[k] < config.period}

\* C36: with burst > calls and several threads running requests on one
\* connector, no more than `burst` GETs are sent within any interval of
\* length `period`.
C36_GetsAtMostBurst ==
    config.burst > config.calls => Cardinality(GetsWithinPeriod) <= config.burst

\* thread t returns from the body of op in this step
Leaves(t, op) == pc[t] = Inside(op) /\ pc'[t] # Inside(op)

\* every entry the step removes is older than `period`
RemovesOnlyExpired ==
    \A k \in 1..(Len(window) - Len(window')) : now - window[k] > config.period

\* the window after the step is a tail of the window before it, followed by
\* at most one new timestamp
AtMostOneAppend ==
    \/ AppendsNothing
    \/ /\ window' # <<>>
       /\ LET kept == SubSeq(window', 1, Len(window') - 1) IN
           /\ Len(kept) <= Len(window)
           /\ \A m \in 1..Len(kept) :
                 kept[m] = window[m + Len(window) - Len(kept)]

\* C37: the window is changed only by acquire() (a purge and at most one
\* append) and by reset() (cleared); current_usage, is_limited and
\* remaining_calls() add and reorder nothing and remove only entries older
\* than `period`; an acquire() that returns a positive delay or raises
\* leaves the unexpired entries as they were.
C37_WindowFrame ==
    [][/\ \A t \in Threads :
            /\ \A op \in {"current_usage", "is_limited", "remaining_calls"} :
                  Leaves(t, op) => AppendsNothing /\ RemovesOnlyExpired
            /\ Leaves(t, "reset") => window' = <<>>
            /\ Leaves(t, "acquire") =>
                  /\ AtMostOneAppend
                  /\ (LastReport.status = "error" \/ LastReport.delay > 0) =>
                        /\ AppendsNothing
                        /\ RemovesOnlyExpired
                        /\ Len(window') = Cardinality(UnexpiredEntries)
       /\ (\A t \in Threads : \A op \in Ops : ~Leaves(t, op)) =>
             window' = window]_vars

\* remaining_calls() purged the entry of the call admitted before it
C37_Witness ==
    \E j \in 2..Len(results) :
        /\ j = Len(results)
        /\ Admitted(j - 1)
        /\ results[j].op = "remaining_calls"
        /\ results[j].value = config.calls
        /\ window = <<>>

\* thread t is in a call on the limiter: it waits for the lock or runs the
\* body of the call
InLimiterCall(t) ==
    pc[t] \in {Waiting(op) : op \in Ops} \cup InsidePcs

\* the lock is held only by a thread that runs the body of a limiter call:
\* not by one that sleeps, sends a GET or has left acquire(), by its raise
\* or otherwise
LockOnlyInsideBody ==
    \A t \in Threads : lock = t => pc[t] \in InsidePcs

\* C38: the lock of the limiter is never held while its thread sleeps or
\* sends a GET, it is only taken when free and never by the thread that
\* holds it, and every exit of acquire(), the raising one included, gives
\* it back; so every acquire(), reset() and introspection call of every
\* thread completes in the end.
C38_LockReleasedCallsComplete ==
    /\ [] LockOnlyInsideBody
    /\ [][\A t \in Threads :
            (lock' = t /\ lock # t) => (lock = 0 /\ pc[t] \notin InsidePcs)]_vars
    /\ \A t \in OpThreads : InLimiterCall(t) ~> ~InLimiterCall(t)

\* a thread is inside reset() after the acquire() of another thread raised
C38_Witness ==
    \E t, u \in OpThreads :
        /\ t # u
        /\ pc[t] = "done"
        /\ RateLimitRejected(t)
        /\ pc[u] = Inside("reset")
        /\ lock = u

\* the call of thread t has started and has not ended
InRequest(t) == pc[t] \in {"acquire", "locked", "ratesleep", "get", "backoff"}

\* the counts of a call stay within what MAX_RETRIES allows, and the error
\* that follows the loop is not raised
WithinRetryBudget(t) ==
    /\ NGets(t) <= MAX_RETRIES
    /\ Len(sleeps[t]) <= MAX_RETRIES - 1
    /\ Len(rlsleeps[t]) <= MAX_RETRIES
    /\ ~RaisedApiError(t, "Maximum retry attempts reached")
    /\ Done(t) => result[t].kind \in {"return", "raise"}

\* C39: every call of _make_request ends, given that each GET ends: it
\* returns the decoded body or raises after at most MAX_RETRIES GETs, at
\* most MAX_RETRIES - 1 backoff sleeps and at most MAX_RETRIES rate-limit
\* sleeps, and never with "Maximum retry attempts reached".
C39_RequestTerminates ==
    /\ [](\A t \in {MainThread} : WithinRetryBudget(t))
    /\ \A t \in {MainThread} : InRequest(t) ~> Done(t)

\* the call used up its attempts on timeouts, after a rate-limit sleep
C39_Witness ==
    \E t \in {MainThread} :
        /\ Done(t)
        /\ NGets(t) = MAX_RETRIES
        /\ Len(sleeps[t]) = MAX_RETRIES - 1
        /\ Len(rlsleeps[t]) >= 1
        /\ RaisedApiError(t, "Request timed out after")

\* the timestamps of w are in non-decreasing order
Ordered(w) == \A k, m \in 1..Len(w) : k < m => w[k] <= w[m]

\* the clock reading that the purge of op compares the timestamps with
PurgeClock(t, op) == IF op = "is_limited" THEN tnow[t] ELSE now

\* C40: under a non-decreasing clock and any interleaving of threads the
\* timestamps of the window are in non-decreasing order, and after a purge
\* no timestamp that is left is older than `period`.
C40_OrderedAndPurged ==
    [][/\ Ordered(window')
       /\ \A t \in Threads : \A op \in Ops \ {"reset"} :
             Leaves(t, op) =>
                 \A m \in 1..Len(window') :
                     PurgeClock(t, op) - window'[m] <= config.period]_vars

\* two timestamps of different times are left by a purge, the older one
\* exactly one period old
C40_Witness ==
    /\ Len(window) = 2
    /\ window[1] < window[2]
    /\ now - window[1] = config.period
    /\ Len(results) = 3

====
